---------------------------- MODULE Spec2Model ----------------------------
(***************************************************************************)
(* Model of the Brainfuck STARK protocol driver                            *)
(*   crates/brainfuck_prover/src/brainfuck_air/mod.rs  (prove / verify)    *)
(*   crates/brainfuck_prover/src/components/mod.rs     (Claim)             *)
(*                                                                         *)
(* One prove_brainfuck call runs on an execution record of `rows` memory   *)
(* rows for a component with `ncols` columns; one verify_brainfuck call    *)
(* then runs on the returned proof, possibly with the claimed sum of the   *)
(* embedded interaction claim changed.  Every statement of the two         *)
(* functions that touches the Fiat-Shamir channel or the commitment scheme *)
(* is one action.  The channel is modelled by the list of the values it    *)
(* absorbed and the draws it answered; a drawn value is a digest of that   *)
(* list.                                                                   *)
(***************************************************************************)
EXTENDS Naturals, Integers, Sequences, FiniteSets, TLC

VARIABLES
    rows,          \* number of rows of the memory table of the execution record
    ncols,         \* T::count() of the component's column type
    ppc,           \* prove_brainfuck: next statement to run
    presult,       \* prove_brainfuck: "none" while running, then the outcome
    pchannel,      \* prove_brainfuck: the channel (operations absorbed so far)
    ptrees,        \* prove_brainfuck: the trees of the commitment scheme
    pbuilder,      \* prove_brainfuck: columns held by the current tree builder
    pclaim,        \* prove_brainfuck: the BrainfuckClaim
    pelems,        \* prove_brainfuck: the BrainfuckInteractionElements
    piclaim,       \* prove_brainfuck: the BrainfuckInteractionClaim
    pregistry,     \* prove_brainfuck: the BrainfuckComponents
    pproof,        \* prove_brainfuck: the returned BrainfuckProof
    pphases,       \* prove_brainfuck: the phases entered, in order
    vpc,           \* verify_brainfuck: next statement to run
    vresult,       \* verify_brainfuck: "none" while running, then the outcome
    vproof,        \* verify_brainfuck: the BrainfuckProof argument
    vtampered,     \* verify_brainfuck: the argument's claimed sum was changed
    vchannel,      \* verify_brainfuck: the channel
    vtrees,        \* verify_brainfuck: the trees registered in the verifier scheme
    vlog_sizes,    \* verify_brainfuck: claim.log_sizes()
    velems,        \* verify_brainfuck: the BrainfuckInteractionElements
    ls_in,         \* log_sizes call: the argument (column count, log_size)
    ls_out,        \* log_sizes call: the results (Claim, BrainfuckClaim)
    fn_in,         \* stand-alone call of another function: its name and arguments
    fn_out,        \* stand-alone call of another function: its result
    calls,         \* concurrent calls: the local state of each call
    heap           \* concurrent calls: the channels allocated so far

pvars == <<ppc, presult, pchannel, ptrees, pbuilder, pclaim, pelems, piclaim,
           pregistry, pproof, pphases>>
vvars == <<vpc, vresult, vproof, vtampered, vchannel, vtrees, vlog_sizes, velems>>
fvars == <<fn_in, fn_out>>
cvars == <<calls, heap>>
lvars == <<ls_in, ls_out, fvars, cvars>>
vars == <<rows, ncols, pvars, vvars, lvars>>

(***************************************************************************)
(* Bounds of the model.                                                    *)
(***************************************************************************)
\* largest row count of an execution record
MaxRows == 5
\* largest column count of a component
MaxCols == 4
\* largest amount added to a claimed sum by the tampering of a proof
MaxTamper == 2
\* largest row count of the execution record of a concurrent call
MaxCallRows == 2
\* longest string given to InstructionType::from_str
MaxStrLen == 2
\* largest log_size given to a stand-alone log_sizes call
MaxLogSize == 21
MaxFelt == 1
\* modulus of the digests standing for hashes and field elements
HashModulus == 65521

(***************************************************************************)
(* Program constants.                                                      *)
(***************************************************************************)
LOG_MAX_ROWS == 20
\* stwo_prover::core::backend::simd::m31::LOG_N_LANES
LOG_N_LANES == 4
PREPROCESSED_TRACE_IDX == 1
ORIGINAL_TRACE_IDX == 2
INTERACTION_TRACE_IDX == 3

None == [none |-> TRUE]

(***************************************************************************)
(* Helpers.                                                                *)
(***************************************************************************)
Last(s) == s[Len(s)]

\* vec![x; n]
Repeat(x, n) == [i \in 1..n |-> x]

RECURSIVE CeilLog2(_)
CeilLog2(n) == IF n <= 1 THEN 0 ELSE 1 + CeilLog2((n + 1) \div 2)

\* one absorption step of a digest
Hash(d, x) == (d * 31 + x + 7) % HashModulus

RECURSIVE HashSeq(_, _)
HashSeq(d, s) == IF s = <<>> THEN d ELSE HashSeq(Hash(d, s[1]), Tail(s))


(***************************************************************************)
(* The Fiat-Shamir channel (Blake2sChannel): the list of what it absorbed  *)
(* and answered.  Blake2sChannel::default() is the empty list.             *)
(***************************************************************************)
Channel_default == <<>>

OpTag(op) == CASE op = "mix_root"   -> 1
               [] op = "mix_u64"    -> 2
               [] op = "mix_felts"  -> 3
               [] op = "draw_felts" -> 4

RECURSIVE ChannelDigest(_)
ChannelDigest(ch) ==
    IF ch = <<>> THEN 0
    ELSE Hash(Hash(ChannelDigest(SubSeq(ch, 1, Len(ch) - 1)), OpTag(Last(ch).op)),
              Last(ch).v)

mix_root(ch, root) == Append(ch, [op |-> "mix_root", v |-> root])
mix_u64(ch, x) == Append(ch, [op |-> "mix_u64", v |-> x])
mix_felts(ch, x) == Append(ch, [op |-> "mix_felts", v |-> x])
\* the value drawn, and the channel after the draw
draw_felt(ch) == [felt |-> ChannelDigest(ch),
                  channel |-> Append(ch, [op |-> "draw_felts", v |-> 0])]

\* the names of the operations of a channel, in order
Ops(ch) == [i \in DOMAIN ch |-> ch[i].op]
Count(s, x) == Cardinality({i \in DOMAIN s : s[i] = x})
\* position of the first x in s, 0 when there is none
IndexOf(s, x) == IF \E i \in DOMAIN s : s[i] = x
                 THEN CHOOSE i \in DOMAIN s : s[i] = x /\ \A j \in 1..(i - 1) : s[j] # x
                 ELSE 0

(***************************************************************************)
(* Claim<T> (components/mod.rs).  T::count() is carried in the record.     *)
(***************************************************************************)
Claim_new(log_size, count) == [log_size |-> log_size, count |-> count]

\* log_sizes() that also declares the columns for the preprocessed tree
Claim_log_sizes_AllTrees(claim) ==
    LET trace_log_sizes == Repeat(claim.log_size, claim.count + 1)
    IN  <<trace_log_sizes, trace_log_sizes, <<>>>>

Claim_log_sizes(claim) ==
    LET preprocessed_trace_log_sizes == <<>>
        trace_log_sizes == Repeat(claim.log_size, claim.count)
        interaction_trace_log_sizes == <<>>
    IN  <<preprocessed_trace_log_sizes, trace_log_sizes, interaction_trace_log_sizes>>

\* mix_into that binds the number of columns in place of log_size
Claim_mix_into_Count(claim, ch) == mix_u64(ch, claim.count)

Claim_mix_into(claim, ch) == mix_u64(ch, claim.log_size)

(***************************************************************************)
(* BrainfuckClaim, BrainfuckInteractionElements, BrainfuckInteractionClaim *)
(* (brainfuck_air/mod.rs).                                                 *)
(***************************************************************************)
BrainfuckClaim_mix_into(claim, ch) == Claim_mix_into(claim.memory, ch)

BrainfuckClaim_log_sizes(claim) == Claim_log_sizes(claim.memory)

\* MemoryElements::draw
MemoryElements_draw(ch) == draw_felt(ch)

BrainfuckInteractionElements_draw(ch) ==
    LET d == MemoryElements_draw(ch)
    IN  [elements |-> [memory_lookup_elements |-> d.felt], channel |-> d.channel]

\* memory::component::InteractionClaim::mix_into
InteractionClaim_mix_into(iclaim, ch) == mix_felts(ch, iclaim.claimed_sum)

BrainfuckInteractionClaim_mix_into(iclaim, ch) ==
    InteractionClaim_mix_into(iclaim.memory, ch)

(***************************************************************************)
(* The trace builders.                                                     *)
(***************************************************************************)
\* MemoryTable::from(vm_trace).trace_evaluation(): the columns of the main
\* trace and the claim, or EmptyTrace
trace_evaluation(n_rows, count) ==
    IF n_rows = 0 THEN [err |-> "EmptyTrace"]
    ELSE LET log_size == CeilLog2(n_rows) + LOG_N_LANES
         IN  [err |-> "none",
              trace |-> [cols |-> Repeat(log_size, count), data |-> n_rows],
              claim |-> Claim_new(log_size, count)]

\* number of base-field columns of one lookup running-sum column
SECURE_EXTENSION_DEGREE == 4

\* interaction_trace_evaluation(&memory_trace, &memory_lookup_elements)
interaction_trace_evaluation(trace, lookup_elements) ==
    LET log_size == trace.cols[1]
        sum == Hash(Hash(2, trace.data), lookup_elements)
    IN  [trace |-> [cols |-> Repeat(log_size, SECURE_EXTENSION_DEGREE), data |-> sum],
         claim |-> [claimed_sum |-> sum]]

(***************************************************************************)
(* The commitment scheme.                                                  *)
(***************************************************************************)
\* Merkle root of a tree of column evaluations
Root(cols, data) == HashSeq(Hash(1, data), cols)

\* TreeBuilder::commit(channel) on the builder's columns: the tree is added
\* to the scheme and its root is mixed into the channel
TreeBuilder_commit(trees, builder, ch) ==
    LET root == Root(builder.cols, builder.data)
    IN  [trees |-> Append(trees, [cols |-> builder.cols, root |-> root]),
         channel |-> mix_root(ch, root)]

\* CommitmentSchemeVerifier::commit(commitment, log_sizes, channel)
CommitmentSchemeVerifier_commit(trees, commitment, log_sizes, ch) ==
    [trees |-> Append(trees, [cols |-> log_sizes, root |-> commitment]),
     channel |-> mix_root(ch, commitment)]

EmptyBuilder == [cols |-> <<>>, data |-> 0]

(***************************************************************************)
(* BrainfuckComponents (brainfuck_air/mod.rs).                             *)
(***************************************************************************)
\* TraceLocationAllocator::new_with_preproccessed_columnds: an allocator of
\* the call's own, that has given out no column of any of the three trees
TraceLocationAllocator_new_with_preproccessed_columnds(columns) ==
    [preprocessed_columns |-> columns, next_tree_offsets |-> <<0, 0, 0>>]

\* MemoryComponent::new: the component takes its trace locations from the
\* allocator and keeps the evaluator's data and the claimed sum
MemoryComponent_new(tree_span_provider, eval, claimed_sum) ==
    [log_size |-> eval.log_size,
     lookup_elements |-> eval.lookup_elements,
     claimed_sum |-> claimed_sum,
     trace_locations |-> tree_span_provider.next_tree_offsets]

\* a registry whose allocator outlives the call: after a registry was built,
\* the next one is given the locations that follow
BrainfuckComponents_new_SharedAllocator(claim, interaction_elements, interaction_claim) ==
    LET memory_is_first_column == [kind |-> "IsFirst", log_size |-> claim.memory.log_size]
        tree_span_provider ==
            [preprocessed_columns |-> <<memory_is_first_column>>,
             next_tree_offsets |-> IF fn_out = None THEN <<0, 0, 0>> ELSE <<1, 1, 1>>]
        memory == MemoryComponent_new(
                      tree_span_provider,
                      [log_size |-> claim.memory.log_size,
                       lookup_elements |-> interaction_elements.memory_lookup_elements],
                      interaction_claim.memory.claimed_sum)
    IN  [preprocessed_columns |-> tree_span_provider.preprocessed_columns,
         memory |-> memory]

BrainfuckComponents_new(claim, interaction_elements, interaction_claim) ==
    LET memory_is_first_column == [kind |-> "IsFirst", log_size |-> claim.memory.log_size]
        tree_span_provider ==
            TraceLocationAllocator_new_with_preproccessed_columnds(<<memory_is_first_column>>)
        memory == MemoryComponent_new(
                      tree_span_provider,
                      [log_size |-> claim.memory.log_size,
                       lookup_elements |-> interaction_elements.memory_lookup_elements],
                      interaction_claim.memory.claimed_sum)
    IN  [preprocessed_columns |-> tree_span_provider.preprocessed_columns,
         memory |-> memory]

BrainfuckComponents_provers(registry) == <<registry.memory>>

BrainfuckComponents_components(registry) ==
    [i \in DOMAIN BrainfuckComponents_provers(registry) |->
        BrainfuckComponents_provers(registry)[i]]


(***************************************************************************)
(* The phases of prove_brainfuck, and the phase each statement belongs to. *)
(***************************************************************************)
PhaseOrder == <<"SETUP", "COMMIT_PREPROCESSED", "COMMIT_MAIN",
                "DRAW_INTERACTION_ELEMENTS", "COMMIT_INTERACTION",
                "BACKEND_PROVE", "DONE">>

PhaseOf(pc) ==
    CASE pc = "setup"                 -> "SETUP"
      [] pc = "commit_preprocessed"   -> "COMMIT_PREPROCESSED"
      [] pc \in {"trace_evaluation", "mix_claim", "commit_main"} -> "COMMIT_MAIN"
      [] pc = "draw"                  -> "DRAW_INTERACTION_ELEMENTS"
      [] pc \in {"interaction_trace", "mix_interaction_claim", "commit_interaction"}
                                      -> "COMMIT_INTERACTION"
      [] pc = "backend_prove"         -> "BACKEND_PROVE"
      [] pc = "done"                  -> "DONE"

\* the phases entered once the statement at pc runs
Enter(phases, pc) ==
    IF phases # <<>> /\ Last(phases) = PhaseOf(pc) THEN phases
    ELSE Append(phases, PhaseOf(pc))

PRunning(pc) == ppc = pc /\ presult = "none"

(***************************************************************************)
(* prove_brainfuck (brainfuck_air/mod.rs:147-221), statement by statement. *)
(***************************************************************************)
\* Protocol Setup: a fresh channel and commitment scheme
PSetup ==
    /\ PRunning("setup")
    /\ pchannel' = Channel_default
    /\ ptrees' = <<>>
    /\ pbuilder' = EmptyBuilder
    /\ pphases' = Enter(pphases, ppc)
    /\ ppc' = "commit_preprocessed"
    /\ UNCHANGED <<rows, ncols, presult, pclaim, pelems, piclaim, pregistry, pproof,
                   vvars, lvars>>

\* Interaction Phase 0: a tree builder with no column is committed
PCommitPreprocessed ==
    /\ PRunning("commit_preprocessed")
    /\ LET tree_builder == EmptyBuilder
           c == TreeBuilder_commit(ptrees, tree_builder, pchannel)
       IN  /\ ptrees' = c.trees
           /\ pchannel' = c.channel
    /\ pphases' = Enter(pphases, ppc)
    /\ ppc' = "trace_evaluation"
    /\ UNCHANGED <<rows, ncols, presult, pbuilder, pclaim, pelems, piclaim, pregistry,
                   pproof, vvars, lvars>>

\* Interaction Phase 1: trace_evaluation().unwrap(), extend_evals, the claim
PTraceEvaluation ==
    /\ PRunning("trace_evaluation")
    /\ pphases' = Enter(pphases, ppc)
    /\ LET r == trace_evaluation(rows, ncols)
       IN  IF r.err # "none"
           THEN \* unwrap() on Err(EmptyTrace) panics
                /\ presult' = "panic"
                /\ UNCHANGED <<ppc, pbuilder, pclaim>>
           ELSE /\ pbuilder' = r.trace
                /\ pclaim' = [memory |-> r.claim]
                /\ ppc' = "mix_claim"
                /\ UNCHANGED presult
    /\ UNCHANGED <<rows, ncols, pchannel, ptrees, pelems, piclaim, pregistry, pproof,
                   vvars, lvars>>

\* claim.mix_into(channel)
PMixClaim ==
    /\ PRunning("mix_claim")
    /\ pchannel' = BrainfuckClaim_mix_into(pclaim, pchannel)
    /\ pphases' = Enter(pphases, ppc)
    /\ ppc' = "commit_main"
    /\ UNCHANGED <<rows, ncols, presult, ptrees, pbuilder, pclaim, pelems, piclaim,
                   pregistry, pproof, vvars, lvars>>

\* tree_builder.commit(channel) of the main trace
PCommitMain ==
    /\ PRunning("commit_main")
    /\ LET c == TreeBuilder_commit(ptrees, pbuilder, pchannel)
       IN  /\ ptrees' = c.trees
           /\ pchannel' = c.channel
    /\ pphases' = Enter(pphases, ppc)
    /\ ppc' = "draw"
    /\ UNCHANGED <<rows, ncols, presult, pbuilder, pclaim, pelems, piclaim, pregistry,
                   pproof, vvars, lvars>>

\* a draw that asks the channel twice
PDraw_Twice ==
    /\ PRunning("draw")
    /\ LET d == BrainfuckInteractionElements_draw(pchannel)
           e == BrainfuckInteractionElements_draw(d.channel)
       IN  /\ pelems' = e.elements
           /\ pchannel' = e.channel
    /\ pphases' = Enter(pphases, ppc)
    /\ ppc' = "interaction_trace"
    /\ UNCHANGED <<rows, ncols, presult, ptrees, pbuilder, pclaim, piclaim, pregistry,
                   pproof, vvars, lvars>>

\* Interaction Phase 2: BrainfuckInteractionElements::draw(channel)
PDraw ==
    /\ PRunning("draw")
    /\ LET d == BrainfuckInteractionElements_draw(pchannel)
       IN  /\ pelems' = d.elements
           /\ pchannel' = d.channel
    /\ pphases' = Enter(pphases, ppc)
    /\ ppc' = "interaction_trace"
    /\ UNCHANGED <<rows, ncols, presult, ptrees, pbuilder, pclaim, piclaim, pregistry,
                   pproof, vvars, lvars>>

\* interaction_trace_evaluation, extend_evals, the interaction claim
PInteractionTrace ==
    /\ PRunning("interaction_trace")
    /\ LET r == interaction_trace_evaluation(pbuilder, pelems.memory_lookup_elements)
       IN  /\ pbuilder' = r.trace
           /\ piclaim' = [memory |-> r.claim]
    /\ pphases' = Enter(pphases, ppc)
    /\ ppc' = "mix_interaction_claim"
    /\ UNCHANGED <<rows, ncols, presult, pchannel, ptrees, pclaim, pelems, pregistry,
                   pproof, vvars, lvars>>

\* interaction_claim.mix_into(channel)
PMixInteractionClaim ==
    /\ PRunning("mix_interaction_claim")
    /\ pchannel' = BrainfuckInteractionClaim_mix_into(piclaim, pchannel)
    /\ pphases' = Enter(pphases, ppc)
    /\ ppc' = "commit_interaction"
    /\ UNCHANGED <<rows, ncols, presult, ptrees, pbuilder, pclaim, pelems, piclaim,
                   pregistry, pproof, vvars, lvars>>

\* an interaction commit that goes back to the draw
PCommitInteraction_Backtrack ==
    /\ PRunning("commit_interaction")
    /\ LET c == TreeBuilder_commit(ptrees, pbuilder, pchannel)
       IN  /\ ptrees' = c.trees
           /\ pchannel' = c.channel
    /\ pphases' = Enter(pphases, ppc)
    /\ ppc' = "draw"
    /\ UNCHANGED <<rows, ncols, presult, pbuilder, pclaim, pelems, piclaim, pregistry,
                   pproof, vvars, lvars>>

\* tree_builder.commit(channel) of the interaction trace
PCommitInteraction ==
    /\ PRunning("commit_interaction")
    /\ LET c == TreeBuilder_commit(ptrees, pbuilder, pchannel)
       IN  /\ ptrees' = c.trees
           /\ pchannel' = c.channel
    /\ pphases' = Enter(pphases, ppc)
    /\ ppc' = "backend_prove"
    /\ UNCHANGED <<rows, ncols, presult, pbuilder, pclaim, pelems, piclaim, pregistry,
                   pproof, vvars, lvars>>

\* prover::prove(&components, channel, commitment_scheme): an opaque proof
\* holding the commitments and bound to the channel, or a ProvingError
prover_prove(components, ch, trees, ok) ==
    IF ok
    THEN [err |-> "none",
          proof |-> [commitments |-> [i \in DOMAIN trees |-> trees[i].root],
                     transcript |-> ChannelDigest(ch),
                     components |-> components]]
    ELSE [err |-> "ProvingError"]

\* Proof Generation: BrainfuckComponents::new, provers(), prover::prove(..)?
PBackendProve ==
    /\ PRunning("backend_prove")
    /\ pphases' = Enter(pphases, ppc)
    /\ \E ok \in BOOLEAN :
         LET component_builder == BrainfuckComponents_new(pclaim, pelems, piclaim)
             components == BrainfuckComponents_provers(component_builder)
             r == prover_prove(components, pchannel, ptrees, ok)
         IN  /\ pregistry' = component_builder
             /\ IF r.err # "none"
                THEN /\ presult' = r.err
                     /\ UNCHANGED <<ppc, pproof>>
                ELSE /\ pproof' = [proof |-> r.proof]
                     /\ ppc' = "done"
                     /\ UNCHANGED presult
    /\ UNCHANGED <<rows, ncols, pchannel, ptrees, pbuilder, pclaim, pelems, piclaim,
                   vvars, lvars>>

\* Ok(BrainfuckProof { claim, interaction_claim, proof })
PDone ==
    /\ PRunning("done")
    /\ pphases' = Enter(pphases, ppc)
    /\ pproof' = [claim |-> pclaim, interaction_claim |-> piclaim, proof |-> pproof.proof]
    /\ presult' = "Ok"
    /\ UNCHANGED <<rows, ncols, ppc, pchannel, ptrees, pbuilder, pclaim, pelems,
                   piclaim, pregistry, vvars, lvars>>


(***************************************************************************)
(* verify_brainfuck (brainfuck_air/mod.rs:224-281), statement by statement.*)
(***************************************************************************)
VRunning(pc) == vpc = pc /\ vresult = "none"

\* the proof with delta added to the claimed sum of its interaction claim
Tamper(proof, delta) ==
    [proof EXCEPT !.interaction_claim.memory.claimed_sum = (@ + delta) % HashModulus]

\* lookup_sum_valid: its body is todo!(), which panics on every argument.
\* The outcome is "true", "false" or "panic".
lookup_sum_valid(claim, interaction_elements, interaction_claim) == "panic"

\* The call on the proof prove_brainfuck returned (delta = 0) or on that
\* proof with its claimed sum changed; Protocol Setup: a fresh channel and
\* verifier scheme, log_sizes from the claim
VSetup ==
    /\ VRunning("idle")
    /\ presult = "Ok"
    /\ \E delta \in 0..MaxTamper :
         /\ vproof' = Tamper(pproof, delta)
         /\ vtampered' = (delta # 0)
    /\ vchannel' = Channel_default
    /\ vtrees' = <<>>
    /\ vlog_sizes' = BrainfuckClaim_log_sizes(vproof'.claim)
    /\ vpc' = "commit_preprocessed"
    /\ UNCHANGED <<rows, ncols, pvars, vresult, velems, lvars>>

\* the commit of tree idx: proof.commitments[idx] with log_sizes[idx]
VCommit(idx) ==
    LET c == CommitmentSchemeVerifier_commit(vtrees, vproof.proof.commitments[idx],
                                             vlog_sizes[idx], vchannel)
    IN  /\ vtrees' = c.trees
        /\ vchannel' = c.channel

\* Interaction Phase 0
VCommitPreprocessed ==
    /\ VRunning("commit_preprocessed")
    /\ VCommit(PREPROCESSED_TRACE_IDX)
    /\ vpc' = "mix_claim"
    /\ UNCHANGED <<rows, ncols, pvars, vresult, vproof, vtampered, vlog_sizes, velems,
                   lvars>>

\* Interaction Phase 1: claim.mix_into(channel)
VMixClaim ==
    /\ VRunning("mix_claim")
    /\ vchannel' = BrainfuckClaim_mix_into(vproof.claim, vchannel)
    /\ vpc' = "commit_main"
    /\ UNCHANGED <<rows, ncols, pvars, vresult, vproof, vtampered, vtrees, vlog_sizes,
                   velems, lvars>>

VCommitMain ==
    /\ VRunning("commit_main")
    /\ VCommit(ORIGINAL_TRACE_IDX)
    /\ vpc' = "draw"
    /\ UNCHANGED <<rows, ncols, pvars, vresult, vproof, vtampered, vlog_sizes, velems,
                   lvars>>

\* Interaction Phase 2: BrainfuckInteractionElements::draw(channel)
VDraw ==
    /\ VRunning("draw")
    /\ LET d == BrainfuckInteractionElements_draw(vchannel)
       IN  /\ velems' = d.elements
           /\ vchannel' = d.channel
    /\ vpc' = "lookup_sum_valid"
    /\ UNCHANGED <<rows, ncols, pvars, vresult, vproof, vtampered, vtrees, vlog_sizes,
                   lvars>>

\* a check that lets the call accept when the predicate gives no answer
VLookupSumValid_AcceptsOnPanic ==
    /\ VRunning("lookup_sum_valid")
    /\ LET r == lookup_sum_valid(vproof.claim, velems, vproof.interaction_claim)
       IN  CASE r = "panic" -> vresult' = "Ok" /\ UNCHANGED vpc
             [] r = "false" -> vresult' = "InvalidLookup" /\ UNCHANGED vpc
             [] r = "true"  -> vpc' = "mix_interaction_claim" /\ UNCHANGED vresult
    /\ UNCHANGED <<rows, ncols, pvars, vproof, vtampered, vchannel, vtrees, vlog_sizes,
                   velems, lvars>>

\* if !lookup_sum_valid(..) { return Err(InvalidLookup) }
\* The statements after it (mod.rs:265-280: mix of the interaction claim,
\* interaction commit, BrainfuckComponents::new, backend verify) run only
\* when lookup_sum_valid returns true, which todo!() never does.
VLookupSumValid ==
    /\ VRunning("lookup_sum_valid")
    /\ LET r == lookup_sum_valid(vproof.claim, velems, vproof.interaction_claim)
       IN  CASE r = "panic" -> vresult' = "panic" /\ UNCHANGED vpc
             [] r = "false" -> vresult' = "InvalidLookup" /\ UNCHANGED vpc
             [] r = "true"  -> vpc' = "mix_interaction_claim" /\ UNCHANGED vresult
    /\ UNCHANGED <<rows, ncols, pvars, vproof, vtampered, vchannel, vtrees, vlog_sizes,
                   velems, lvars>>

(***************************************************************************)
(* The driver: one prove call, then one verify call on its proof.          *)
(***************************************************************************)
\* a row count of more than 2^LOG_MAX_ROWS rows
OversizeRows == 2 ^ LOG_MAX_ROWS + 1

\* the row counts of the execution records given to prove_brainfuck
RowChoices == (0..MaxRows) \cup {OversizeRows}

Init ==
    /\ rows \in RowChoices
    /\ ncols \in 1..MaxCols
    /\ ppc = "setup"
    /\ presult = "none"
    /\ pchannel = <<>>
    /\ ptrees = <<>>
    /\ pbuilder = EmptyBuilder
    /\ pclaim = None
    /\ pelems = None
    /\ piclaim = None
    /\ pregistry = None
    /\ pproof = None
    /\ pphases = <<>>
    /\ vpc = "idle"
    /\ vresult = "none"
    /\ vproof = None
    /\ vtampered = FALSE
    /\ vchannel = <<>>
    /\ vtrees = <<>>
    /\ vlog_sizes = <<>>
    /\ velems = None
    /\ ls_in = None
    /\ ls_out = None
    /\ fn_in = None
    /\ fn_out = None
    /\ calls = <<>>
    /\ heap = <<>>

Next ==
    \/ PSetup
    \/ PCommitPreprocessed
    \/ PTraceEvaluation
    \/ PMixClaim
    \/ PCommitMain
    \/ PDraw
    \/ PInteractionTrace
    \/ PMixInteractionClaim
    \/ PCommitInteraction
    \/ PBackendProve
    \/ PDone
    \/ VSetup
    \/ VCommitPreprocessed
    \/ VMixClaim
    \/ VCommitMain
    \/ VDraw
    \/ VLookupSumValid

Spec == Init /\ [][Next]_vars

(***************************************************************************)
(* Stand-alone calls of log_sizes() on any column count and log_size.      *)
(***************************************************************************)
LogSizesCall ==
    /\ \E count \in 0..MaxCols, log_size \in 0..MaxLogSize :
         LET claim == Claim_new(log_size, count)
         IN  /\ ls_in' = [count |-> count, log_size |-> log_size]
             /\ ls_out' = [claim |-> Claim_log_sizes(claim),
                           aggregate |-> BrainfuckClaim_log_sizes([memory |-> claim]),
                           memory |-> Claim_log_sizes(claim)]
    /\ UNCHANGED <<rows, ncols, pvars, vvars, fvars, cvars>>

InitLogSizes == Init /\ rows = 0 /\ ncols = 1

NextLogSizes == LogSizesCall

SpecLogSizes == InitLogSizes /\ [][NextLogSizes]_vars


(***************************************************************************)
(* Stand-alone binding of two claims into a fresh channel, in both orders, *)
(* followed by a draw of the interaction elements.                         *)
(***************************************************************************)
\* the interaction elements drawn after first and then second were mixed
\* into a fresh channel
DrawAfterMix(first, second) ==
    LET channel == Claim_mix_into(second, Claim_mix_into(first, Channel_default))
    IN  BrainfuckInteractionElements_draw(channel).elements

BindingOrderCall ==
    /\ fn_in = None
    /\ \E la \in 0..MaxLogSize, lb \in 0..MaxLogSize, ca \in 1..2, cb \in 1..2 :
         LET a == Claim_new(la, ca)
             b == Claim_new(lb, cb)
         IN  /\ fn_in' = [fn |-> "mix_order", a |-> a, b |-> b]
             /\ fn_out' = [ab |-> DrawAfterMix(a, b), ba |-> DrawAfterMix(b, a)]
    /\ UNCHANGED <<rows, ncols, pvars, vvars, ls_in, ls_out, cvars>>

InitBindingOrder == Init /\ rows = 0 /\ ncols = 1

NextBindingOrder == BindingOrderCall

SpecBindingOrder == InitBindingOrder /\ [][NextBindingOrder]_vars

(***************************************************************************)
(* Two concurrent calls of prove_brainfuck / verify_brainfuck.  Each call  *)
(* has its local variables in calls[c]; the channel it created lives in    *)
(* heap, at the handle the call holds.  One step of a call is one          *)
(* statement of its function, as in the actions above.                     *)
(***************************************************************************)
NewCall(kind, n_rows, count, ok, proof) ==
    [kind |-> kind, rows |-> n_rows, count |-> count, backend_ok |-> ok,
     proof_in |-> proof, pc |-> "setup", result |-> "none", channel |-> 0,
     trees |-> <<>>, builder |-> EmptyBuilder, claim |-> None, elems |-> None,
     iclaim |-> None, log_sizes |-> <<>>, out |-> None]

\* a channel whose seed depends on how many channels exist
AllocChannel_Seeded(h) ==
    [heap |-> Append(h, mix_u64(Channel_default, Len(h))), handle |-> Len(h) + 1]

\* one channel shared by every call
AllocChannel_Shared(h) ==
    IF h = <<>> THEN [heap |-> <<Channel_default>>, handle |-> 1]
    ELSE [heap |-> h, handle |-> 1]

\* let channel = &mut Blake2sChannel::default(): a channel of the call's own
AllocChannel(h) == [heap |-> Append(h, Channel_default), handle |-> Len(h) + 1]

\* Protocol Setup of either function, with the channel at handle
SetupCall(st, handle) ==
    [st EXCEPT !.pc = "commit_preprocessed",
               !.channel = handle,
               !.log_sizes = IF st.kind = "verify"
                             THEN BrainfuckClaim_log_sizes(st.proof_in.claim)
                             ELSE <<>>]

\* a backend call that goes on with a proof although the backend failed
BackendProveStep_IgnoreError(st, ch) ==
    LET component_builder == BrainfuckComponents_new(st.claim, st.elems, st.iclaim)
        components == BrainfuckComponents_provers(component_builder)
        r == prover_prove(components, ch, st.trees, TRUE)
    IN  [st |-> [st EXCEPT !.out = [proof |-> r.proof], !.pc = "done"], ch |-> ch]

\* Proof Generation: BrainfuckComponents::new, provers(), prover::prove(..)?
BackendProveStep(st, ch) ==
    LET component_builder == BrainfuckComponents_new(st.claim, st.elems, st.iclaim)
        components == BrainfuckComponents_provers(component_builder)
        r == prover_prove(components, ch, st.trees, st.backend_ok)
    IN  IF r.err # "none"
        THEN [st |-> [st EXCEPT !.result = r.err], ch |-> ch]
        ELSE [st |-> [st EXCEPT !.out = [proof |-> r.proof], !.pc = "done"], ch |-> ch]

\* the statement of prove_brainfuck at st.pc, on the call's channel ch
ProveStep(st, ch) ==
    CASE st.pc = "commit_preprocessed" ->
           LET c == TreeBuilder_commit(st.trees, EmptyBuilder, ch)
           IN  [st |-> [st EXCEPT !.trees = c.trees, !.pc = "trace_evaluation"],
                ch |-> c.channel]
      [] st.pc = "trace_evaluation" ->
           LET r == trace_evaluation(st.rows, st.count)
           IN  IF r.err # "none"
               THEN [st |-> [st EXCEPT !.result = "panic"], ch |-> ch]
               ELSE [st |-> [st EXCEPT !.builder = r.trace,
                                       !.claim = [memory |-> r.claim],
                                       !.pc = "mix_claim"],
                     ch |-> ch]
      [] st.pc = "mix_claim" ->
           [st |-> [st EXCEPT !.pc = "commit_main"],
            ch |-> BrainfuckClaim_mix_into(st.claim, ch)]
      [] st.pc = "commit_main" ->
           LET c == TreeBuilder_commit(st.trees, st.builder, ch)
           IN  [st |-> [st EXCEPT !.trees = c.trees, !.pc = "draw"], ch |-> c.channel]
      [] st.pc = "draw" ->
           LET d == BrainfuckInteractionElements_draw(ch)
           IN  [st |-> [st EXCEPT !.elems = d.elements, !.pc = "interaction_trace"],
                ch |-> d.channel]
      [] st.pc = "interaction_trace" ->
           LET r == interaction_trace_evaluation(st.builder,
                                                 st.elems.memory_lookup_elements)
           IN  [st |-> [st EXCEPT !.builder = r.trace,
                                  !.iclaim = [memory |-> r.claim],
                                  !.pc = "mix_interaction_claim"],
                ch |-> ch]
      [] st.pc = "mix_interaction_claim" ->
           [st |-> [st EXCEPT !.pc = "commit_interaction"],
            ch |-> BrainfuckInteractionClaim_mix_into(st.iclaim, ch)]
      [] st.pc = "commit_interaction" ->
           LET c == TreeBuilder_commit(st.trees, st.builder, ch)
           IN  [st |-> [st EXCEPT !.trees = c.trees, !.pc = "backend_prove"],
                ch |-> c.channel]
      [] st.pc = "backend_prove" -> BackendProveStep(st, ch)
      [] st.pc = "done" ->
           [st |-> [st EXCEPT !.out = [claim |-> st.claim,
                                       interaction_claim |-> st.iclaim,
                                       proof |-> st.out.proof],
                              !.result = "Ok"],
            ch |-> ch]

\* the commit of tree idx by the verifier call st
VerifyCommitStep(st, ch, idx, next) ==
    LET c == CommitmentSchemeVerifier_commit(st.trees, st.proof_in.proof.commitments[idx],
                                             st.log_sizes[idx], ch)
    IN  [st |-> [st EXCEPT !.trees = c.trees, !.pc = next], ch |-> c.channel]

\* the statement of verify_brainfuck at st.pc, on the call's channel ch
VerifyStep(st, ch) ==
    CASE st.pc = "commit_preprocessed" ->
           VerifyCommitStep(st, ch, PREPROCESSED_TRACE_IDX, "mix_claim")
      [] st.pc = "mix_claim" ->
           [st |-> [st EXCEPT !.pc = "commit_main"],
            ch |-> BrainfuckClaim_mix_into(st.proof_in.claim, ch)]
      [] st.pc = "commit_main" ->
           VerifyCommitStep(st, ch, ORIGINAL_TRACE_IDX, "draw")
      [] st.pc = "draw" ->
           LET d == BrainfuckInteractionElements_draw(ch)
           IN  [st |-> [st EXCEPT !.elems = d.elements, !.pc = "lookup_sum_valid"],
                ch |-> d.channel]
      [] st.pc = "lookup_sum_valid" ->
           LET r == lookup_sum_valid(st.proof_in.claim, st.elems,
                                     st.proof_in.interaction_claim)
           IN  CASE r = "panic" -> [st |-> [st EXCEPT !.result = "panic"], ch |-> ch]
                 [] r = "false" -> [st |-> [st EXCEPT !.result = "InvalidLookup"],
                                    ch |-> ch]
                 [] r = "true"  -> [st |-> [st EXCEPT !.pc = "mix_interaction_claim"],
                                    ch |-> ch]

LocalStep(st, ch) == IF st.kind = "prove" THEN ProveStep(st, ch) ELSE VerifyStep(st, ch)

\* the call run to its end with nothing else running
RECURSIVE RunToEnd(_, _)
RunToEnd(st, ch) ==
    IF st.result # "none" THEN [st |-> st, ch |-> ch]
    ELSE LET n == LocalStep(st, ch) IN RunToEnd(n.st, n.ch)

RunAlone(call) == RunToEnd(SetupCall(call, 1), Channel_default)

\* the proof prove_brainfuck returns for a trace of n_rows rows
ProofOf(n_rows, count) == RunAlone(NewCall("prove", n_rows, count, TRUE, None)).st.out

\* the calls a caller may start
CallChoices ==
    {NewCall("prove", r, 1, ok, None) : r \in 0..MaxCallRows, ok \in BOOLEAN}
        \cup {NewCall("verify", 0, 1, TRUE, ProofOf(r, 1)) : r \in 1..MaxCallRows}

\* the caller starts two calls
CallsStart ==
    /\ calls = <<>>
    /\ \E a \in CallChoices, b \in CallChoices : calls' = <<a, b>>
    /\ UNCHANGED <<rows, ncols, pvars, vvars, ls_in, ls_out, fvars, heap>>

\* Protocol Setup of call c
CallSetup(c) ==
    /\ calls[c].result = "none"
    /\ calls[c].pc = "setup"
    /\ LET a == AllocChannel(heap)
       IN  /\ heap' = a.heap
           /\ calls' = [calls EXCEPT ![c] = SetupCall(@, a.handle)]
    /\ UNCHANGED <<rows, ncols, pvars, vvars, ls_in, ls_out, fvars>>

\* the next statement of call c
CallStep(c) ==
    /\ calls[c].result = "none"
    /\ calls[c].pc # "setup"
    /\ LET n == LocalStep(calls[c], heap[calls[c].channel])
       IN  /\ calls' = [calls EXCEPT ![c] = n.st]
           /\ heap' = [heap EXCEPT ![calls[c].channel] = n.ch]
    /\ UNCHANGED <<rows, ncols, pvars, vvars, ls_in, ls_out, fvars>>

InitCalls == Init /\ rows = 0 /\ ncols = 1

NextCalls ==
    \/ CallsStart
    \/ \E c \in DOMAIN calls : CallSetup(c)
    \/ \E c \in DOMAIN calls : CallStep(c)

SpecCalls == InitCalls /\ [][NextCalls]_vars

(***************************************************************************)
(* Stand-alone calls of BrainfuckComponents::new: a registry is built from *)
(* a (Claim, Interaction Elements, Interaction Claim) and its provers()    *)
(* are taken, then a second one is built from the same three values and    *)
(* its components() are taken.                                             *)
(***************************************************************************)
RegistryNewCall ==
    /\ fn_in = None
    /\ \E log_size \in 0..MaxLogSize, z \in 0..MaxFelt, sum \in 0..MaxFelt :
         LET claim == [memory |-> Claim_new(log_size, 1)]
             interaction_elements == [memory_lookup_elements |-> z]
             interaction_claim == [memory |-> [claimed_sum |-> sum]]
             registry == BrainfuckComponents_new(claim, interaction_elements,
                                                 interaction_claim)
         IN  /\ fn_in' = [fn |-> "registry", claim |-> claim,
                          interaction_elements |-> interaction_elements,
                          interaction_claim |-> interaction_claim]
             /\ fn_out' = [first |-> registry,
                           provers |-> BrainfuckComponents_provers(registry),
                           second |-> None,
                           components |-> None]
    /\ UNCHANGED <<rows, ncols, pvars, vvars, ls_in, ls_out, cvars>>

RegistryRebuildCall ==
    /\ fn_in # None
    /\ fn_out.second = None
    /\ LET registry == BrainfuckComponents_new(fn_in.claim, fn_in.interaction_elements,
                                               fn_in.interaction_claim)
       IN  fn_out' = [fn_out EXCEPT !.second = registry,
                                    !.components = BrainfuckComponents_components(registry)]
    /\ UNCHANGED <<rows, ncols, pvars, vvars, ls_in, ls_out, fn_in, cvars>>

InitRegistry == Init /\ rows = 0 /\ ncols = 1

NextRegistry ==
    \/ RegistryNewCall
    \/ RegistryRebuildCall

SpecRegistry == InitRegistry /\ [][NextRegistry]_vars

(***************************************************************************)
(* InstructionType (brainfuck_vm/src/instruction.rs).  A string is the     *)
(* sequence of the code points of its characters: ">" is <<62>>.           *)
(***************************************************************************)
InstructionTypes == {"Right", "Left", "Plus", "Minus", "PutChar", "ReadChar",
                     "JumpIfZero", "JumpIfNotZero"}

\* a from_str that looks at the first character only
from_str_FirstChar(s) ==
    IF s = <<>> THEN [ok |-> FALSE, v |-> "none"]
    ELSE CASE s[1] = 62 -> [ok |-> TRUE, v |-> "Right"]
           [] s[1] = 60 -> [ok |-> TRUE, v |-> "Left"]
           [] s[1] = 43 -> [ok |-> TRUE, v |-> "Plus"]
           [] s[1] = 45 -> [ok |-> TRUE, v |-> "Minus"]
           [] s[1] = 46 -> [ok |-> TRUE, v |-> "PutChar"]
           [] s[1] = 44 -> [ok |-> TRUE, v |-> "ReadChar"]
           [] s[1] = 91 -> [ok |-> TRUE, v |-> "JumpIfZero"]
           [] s[1] = 93 -> [ok |-> TRUE, v |-> "JumpIfNotZero"]
           [] OTHER -> [ok |-> FALSE, v |-> "none"]

\* impl FromStr for InstructionType
from_str(s) ==
    CASE s = <<62>> -> [ok |-> TRUE, v |-> "Right"]
      [] s = <<60>> -> [ok |-> TRUE, v |-> "Left"]
      [] s = <<43>> -> [ok |-> TRUE, v |-> "Plus"]
      [] s = <<45>> -> [ok |-> TRUE, v |-> "Minus"]
      [] s = <<46>> -> [ok |-> TRUE, v |-> "PutChar"]
      [] s = <<44>> -> [ok |-> TRUE, v |-> "ReadChar"]
      [] s = <<91>> -> [ok |-> TRUE, v |-> "JumpIfZero"]
      [] s = <<93>> -> [ok |-> TRUE, v |-> "JumpIfNotZero"]
      [] OTHER -> [ok |-> FALSE, v |-> "none"]

\* a Display that prints the two jumps with each other's symbol
Display_SwappedJumps(t) ==
    CASE t = "Right" -> <<62>>
      [] t = "Left" -> <<60>>
      [] t = "Plus" -> <<43>>
      [] t = "Minus" -> <<45>>
      [] t = "PutChar" -> <<46>>
      [] t = "ReadChar" -> <<44>>
      [] t = "JumpIfZero" -> <<93>>
      [] t = "JumpIfNotZero" -> <<91>>

\* impl Display for InstructionType
Display(t) ==
    CASE t = "Right" -> <<62>>
      [] t = "Left" -> <<60>>
      [] t = "Plus" -> <<43>>
      [] t = "Minus" -> <<45>>
      [] t = "PutChar" -> <<46>>
      [] t = "ReadChar" -> <<44>>
      [] t = "JumpIfZero" -> <<91>>
      [] t = "JumpIfNotZero" -> <<93>>

\* (value as char).to_string(): the one-character string of code point value
CharToString(value) == <<value>>

\* impl From<u8> for InstructionType: from_str(..).expect("Invalid instruction")
from_u8(value) ==
    LET r == from_str(CharToString(value))
    IN  IF r.ok THEN [panic |-> "none", v |-> r.v]
        ELSE [panic |-> "Invalid instruction", v |-> "none"]

\* the characters of the strings given to from_str: the eight symbols, 'x',
\* ' ' and NUL
Alphabet == {62, 60, 43, 45, 46, 44, 91, 93, 120, 32, 0}

Strings == UNION {[1..n -> Alphabet] : n \in 0..MaxStrLen}

Bytes == 0..255

\* format!("{}", t), then from_str of what was printed and From<u8> of its byte
DisplayCall ==
    /\ fn_in = None
    /\ \E t \in InstructionTypes :
         /\ fn_in' = [fn |-> "display", t |-> t]
         /\ fn_out' = [symbol |-> Display(t),
                       parsed |-> from_str(Display(t)),
                       from_byte |-> from_u8(Display(t)[1])]
    /\ UNCHANGED <<rows, ncols, pvars, vvars, ls_in, ls_out, cvars>>

FromStrCall ==
    /\ fn_in = None
    /\ \E str \in Strings :
         /\ fn_in' = [fn |-> "from_str", s |-> str]
         /\ fn_out' = from_str(str)
    /\ UNCHANGED <<rows, ncols, pvars, vvars, ls_in, ls_out, cvars>>

FromU8Call ==
    /\ fn_in = None
    /\ \E b \in Bytes :
         /\ fn_in' = [fn |-> "from_u8", value |-> b]
         /\ fn_out' = from_u8(b)
    /\ UNCHANGED <<rows, ncols, pvars, vvars, ls_in, ls_out, cvars>>

InitInstruction == Init /\ rows = 0 /\ ncols = 1

NextInstruction == DisplayCall \/ FromStrCall \/ FromU8Call

SpecInstruction == InitInstruction /\ [][NextInstruction]_vars

(***************************************************************************)
(* Properties.                                                             *)
(***************************************************************************)
PTerminated == presult # "none"
VTerminated == vresult # "none"
DrawCount(ch) == Count(Ops(ch), "draw_felts")
\* number of commits (roots mixed) before the first draw
CommitsBeforeDraw(ch) ==
    Count(SubSeq(Ops(ch), 1, IndexOf(Ops(ch), "draw_felts") - 1), "mix_root")

\* C1: for every valid trace whose row count R has ceil(log2(R)) <= 20,
\* verify_brainfuck on the proof prove_brainfuck returned accepts (Ok).
C1_VerifyAcceptsProvedTrace ==
    (VTerminated /\ ~vtampered /\ rows >= 1 /\ CeilLog2(rows) <= LOG_MAX_ROWS)
        => vresult = "Ok"

\* C2: when the lookup-sum predicate is undefined or does not hold,
\* verify_brainfuck ends with the typed rejection InvalidLookup: it neither
\* accepts nor ends with a panic.
C2_LookupFailsClosedTyped ==
    (VTerminated /\ vpc = "lookup_sum_valid"
        /\ lookup_sum_valid(vproof.claim, velems, vproof.interaction_claim) # "true")
        => vresult = "InvalidLookup"

\* C3: on a trace of zero rows prove_brainfuck fails with EmptyTrace and its
\* channel is still the fresh channel (no mix, commit or draw happened).
C3_EmptyTraceBeforeTranscript ==
    (PTerminated /\ rows = 0)
        => (presult = "EmptyTrace" /\ pchannel = Channel_default)

\* C4: when verify_brainfuck ends on the proof of a prove_brainfuck run, the
\* operations on its channel are those of the prover's channel, in the same
\* order (commit, mix Claim, commit, draw, mix InteractionClaim, commit).
C4_SameTranscriptSequence ==
    VTerminated => Ops(vchannel) = Ops(pchannel)

\* C5: the phases prove_brainfuck has entered are always an initial part of
\* SETUP, COMMIT_PREPROCESSED, COMMIT_MAIN, DRAW_INTERACTION_ELEMENTS,
\* COMMIT_INTERACTION, BACKEND_PROVE, DONE: each phase is entered at most
\* once, in that order, and none before its predecessor.
C5_LinearPhases ==
    /\ Len(pphases) <= Len(PhaseOrder)
    /\ \A i \in DOMAIN pphases : pphases[i] = PhaseOrder[i]
    /\ (presult = "Ok" => pphases = PhaseOrder)
    \* a phase is entered only when its predecessor has completed
    /\ Len(pphases) >= 3 => Len(ptrees) >= 1
    /\ Len(pphases) >= 4 => (Len(ptrees) >= 2 /\ pclaim # None)
    /\ Len(pphases) >= 5 => (DrawCount(pchannel) = 1 /\ pelems # None)
    /\ Len(pphases) >= 6 => (Len(ptrees) = 3 /\ piclaim # None)
    /\ Len(pphases) >= 7 => (pregistry # None /\ pproof # None)

C5_Witness == presult = "Ok" /\ pphases = PhaseOrder /\ Len(ptrees) = 3

\* C6 as stated: every prove_brainfuck run and every verify_brainfuck run
\* that has ended drew the interaction elements exactly once, after the
\* commit of the main trace.
C6_DrawnOnceInEveryRun ==
    /\ PTerminated => (DrawCount(pchannel) = 1 /\ CommitsBeforeDraw(pchannel) = 2)
    /\ VTerminated => (DrawCount(vchannel) = 1 /\ CommitsBeforeDraw(vchannel) = 2)

\* C6 amended: no run draws the interaction elements more than once; a draw
\* comes after the preprocessed and main commits and before the interaction
\* trace is built (prover) or the interaction commitment is registered
\* (verifier); every prove_brainfuck run on a trace that is not empty and
\* every verify_brainfuck run, once ended, has drawn exactly once.
C6_DrawOnceAfterMainCommit ==
    /\ DrawCount(pchannel) <= 1
    /\ DrawCount(vchannel) <= 1
    /\ DrawCount(pchannel) = 1 => (CommitsBeforeDraw(pchannel) = 2 /\ Len(ptrees) >= 2)
    /\ DrawCount(vchannel) = 1 => (CommitsBeforeDraw(vchannel) = 2 /\ Len(vtrees) >= 2)
    /\ (piclaim # None \/ Len(ptrees) = 3) => DrawCount(pchannel) = 1
    /\ Len(vtrees) = 3 => DrawCount(vchannel) = 1
    /\ (PTerminated /\ rows # 0) => DrawCount(pchannel) = 1
    /\ VTerminated => DrawCount(vchannel) = 1

C6_Witness ==
    /\ presult = "Ok" /\ DrawCount(pchannel) = 1 /\ Len(ptrees) = 3
    /\ VTerminated /\ DrawCount(vchannel) = 1

\* C7: in prove_brainfuck and in verify_brainfuck the Claim and the
\* InteractionClaim are each mixed exactly once, the Claim before the main
\* commit and before any draw, the InteractionClaim before the interaction
\* commit.
MixedOnceBeforeOwnCommit(ch) ==
    LET ops == Ops(ch)
    IN  /\ Count(ops, "mix_u64") = 1
        /\ Count(ops, "mix_felts") = 1
        /\ Count(ops, "mix_root") = 3
        /\ Count(SubSeq(ops, 1, IndexOf(ops, "mix_u64")), "mix_root") = 1
        /\ Count(SubSeq(ops, 1, IndexOf(ops, "mix_felts")), "mix_root") = 2
        /\ Count(SubSeq(ops, 1, IndexOf(ops, "mix_u64")), "draw_felts") = 0

C7_ClaimsMixedOnceBeforeCommit ==
    /\ presult = "Ok" => MixedOnceBeforeOwnCommit(pchannel)
    /\ VTerminated => MixedOnceBeforeOwnCommit(vchannel)

\* C8: Claim::log_sizes() of a component with column count C and log_size L
\* is (preprocessed, main, interaction) with main = C entries equal to L and
\* the other two empty; BrainfuckClaim::log_sizes() is the memory claim's.
C8_LogSizesShape ==
    ls_in # None =>
        /\ Len(ls_out.claim) = 3
        /\ ls_out.claim[PREPROCESSED_TRACE_IDX] = <<>>
        /\ Len(ls_out.claim[ORIGINAL_TRACE_IDX]) = ls_in.count
        /\ \A i \in DOMAIN ls_out.claim[ORIGINAL_TRACE_IDX] :
               ls_out.claim[ORIGINAL_TRACE_IDX][i] = ls_in.log_size
        /\ ls_out.claim[INTERACTION_TRACE_IDX] = <<>>
        /\ ls_out.aggregate = ls_out.memory

C8_Witness ==
    /\ ls_in # None /\ ls_in.count = 3 /\ ls_in.log_size = LOG_MAX_ROWS
    /\ Len(ls_out.aggregate[ORIGINAL_TRACE_IDX]) = 3

\* C9: every preprocessed column the component registry allocates (the
\* is-first column of the memory log_size) is a column of the preprocessed
\* tree prove_brainfuck committed.
C9_PreprocessedColumnsCommitted ==
    pregistry # None =>
        \A i \in DOMAIN pregistry.preprocessed_columns :
            \E j \in DOMAIN ptrees[PREPROCESSED_TRACE_IDX].cols :
                ptrees[PREPROCESSED_TRACE_IDX].cols[j]
                    = pregistry.preprocessed_columns[i].log_size

\* C10: verify_brainfuck on a valid proof whose claimed sum was changed ends
\* with InvalidLookup or a backend VerificationError.
C10_ChangedSumRejected ==
    (VTerminated /\ vtampered) => vresult \in {"InvalidLookup", "VerificationError"}


\* C11: for two Claims with distinct log_size, mixing them into a fresh
\* channel in the order (A, B) and in the order (B, A) gives different
\* interaction elements on the next draw.
C11_BindingOrderMatters ==
    (fn_in # None /\ fn_in.fn = "mix_order" /\ fn_in.a.log_size # fn_in.b.log_size)
        => fn_out.ab # fn_out.ba

C11_Witness ==
    /\ fn_in # None /\ fn_in.fn = "mix_order"
    /\ fn_in.a.log_size = 5 /\ fn_in.b.log_size = LOG_MAX_ROWS
    /\ fn_out.ab # fn_out.ba

CallEnded(c) == calls[c].result # "none"
CallChannel(c) == heap[calls[c].channel]

\* C12: when the backend prove operation fails, a prove_brainfuck call ends
\* with that ProvingError, holds no proof and takes no further step (no
\* retry); a proof exists only after the backend succeeded, and the
\* BrainfuckProof returned carries the Claim and InteractionClaim that were
\* mixed into the channel.
ProveCalls == {c \in DOMAIN calls : calls[c].kind = "prove"}

C12_ProofOnlyAfterBackendOk ==
    \A c \in ProveCalls :
        /\ (CallEnded(c) /\ ~calls[c].backend_ok /\ calls[c].rows # 0)
              => (calls[c].result = "ProvingError" /\ calls[c].out = None)
        /\ calls[c].result = "ProvingError"
              => (~calls[c].backend_ok /\ calls[c].pc = "backend_prove")
        /\ calls[c].out # None
              => /\ calls[c].backend_ok
                 /\ calls[c].pc = "done"
                 /\ calls[c].out.proof.transcript = ChannelDigest(CallChannel(c))
        /\ calls[c].result = "Ok"
              => /\ calls[c].out.claim = calls[c].claim
                 /\ calls[c].out.interaction_claim = calls[c].iclaim
                 /\ \E i \in DOMAIN CallChannel(c) :
                       CallChannel(c)[i]
                           = [op |-> "mix_u64", v |-> calls[c].out.claim.memory.log_size]
                 /\ \E i \in DOMAIN CallChannel(c) :
                       CallChannel(c)[i]
                           = [op |-> "mix_felts",
                              v |-> calls[c].out.interaction_claim.memory.claimed_sum]

C12_BackendErrorPropagated ==
    /\ []C12_ProofOnlyAfterBackendOk
    /\ [][\A c \in ProveCalls :
            calls[c].result = "ProvingError"
                => (calls'[c] = calls[c] /\ heap'[calls[c].channel] = CallChannel(c))]_vars

C12_Witness ==
    /\ Len(calls) = 2
    /\ calls[1].kind = "prove" /\ calls[1].result = "ProvingError"
    /\ calls[1].out = None /\ Len(calls[1].trees) = 3
    /\ calls[2].kind = "prove" /\ calls[2].result = "Ok"

\* C13: no Claim with log_size > LOG_MAX_ROWS is ever built, mixed into the
\* channel or committed by prove_brainfuck.
C13_NoClaimAboveLogMaxRows ==
    /\ pclaim # None => pclaim.memory.log_size <= LOG_MAX_ROWS
    /\ \A i \in DOMAIN pchannel :
          pchannel[i].op = "mix_u64" => pchannel[i].v <= LOG_MAX_ROWS
    /\ \A t \in DOMAIN ptrees : \A j \in DOMAIN ptrees[t].cols :
          ptrees[t].cols[j] <= LOG_MAX_ROWS


\* C14: whatever the interleaving of two concurrent calls, each call that
\* has ended holds the channel contents and the local state (claims,
\* elements, trees, result) it ends with when it runs alone.
C14_CallsIndependent ==
    \A c \in DOMAIN calls :
        CallEnded(c) =>
            LET alone == RunAlone(NewCall(calls[c].kind, calls[c].rows, calls[c].count,
                                          calls[c].backend_ok, calls[c].proof_in))
            IN  /\ CallChannel(c) = alone.ch
                /\ [calls[c] EXCEPT !.channel = 1] = alone.st

C14_Witness ==
    /\ Len(calls) = 2
    /\ CallEnded(1) /\ CallEnded(2)
    /\ calls[1].kind = "prove" /\ calls[1].result = "Ok"
    /\ calls[2].kind = "verify" /\ calls[2].proof_in # calls[1].out
    /\ Len(CallChannel(1)) = 6 /\ Len(CallChannel(2)) = 4

\* C15: two prove_brainfuck calls on the same execution record start from
\* the same channel contents, and once both have ended they have performed
\* the same channel operations with the same values, drawn the same
\* interaction elements and built the same Claim and InteractionClaim.
SameRecord(c, d) ==
    /\ calls[c].kind = "prove" /\ calls[d].kind = "prove"
    /\ calls[c].rows = calls[d].rows /\ calls[c].count = calls[d].count

C15_ProvingDeterministic ==
    \A c \in DOMAIN calls : \A d \in DOMAIN calls :
        SameRecord(c, d) =>
            /\ (calls[c].pc = "commit_preprocessed" /\ calls[d].pc = "commit_preprocessed")
                  => CallChannel(c) = CallChannel(d)
            /\ (CallEnded(c) /\ CallEnded(d)) =>
                  /\ CallChannel(c) = CallChannel(d)
                  /\ calls[c].elems = calls[d].elems
                  /\ calls[c].claim = calls[d].claim
                  /\ calls[c].iclaim = calls[d].iclaim
                  /\ calls[c].trees = calls[d].trees
                  /\ (calls[c].result = "Ok" /\ calls[d].result = "Ok")
                        => calls[c].out = calls[d].out

C15_Witness ==
    /\ Len(calls) = 2
    /\ SameRecord(1, 2) /\ calls[1].rows = MaxCallRows
    /\ calls[1].result = "Ok" /\ calls[2].result = "Ok"
    /\ calls[1].channel # calls[2].channel
    /\ calls[1].out = calls[2].out /\ calls[1].elems # None

\* C16: for each instruction type t, from_str of the symbol Display prints
\* for t is t, From<u8> of that symbol's byte is t, and the eight symbols are
\* one character each and pairwise distinct.
C16_DisplayParsesBack ==
    /\ (fn_in # None /\ fn_in.fn = "display") =>
          /\ Len(fn_out.symbol) = 1
          /\ fn_out.parsed = [ok |-> TRUE, v |-> fn_in.t]
          /\ fn_out.from_byte = [panic |-> "none", v |-> fn_in.t]
    /\ \A t \in InstructionTypes : \A u \in InstructionTypes :
          t # u => Display(t) # Display(u)

C16_Witness ==
    /\ fn_in # None /\ fn_in.fn = "display" /\ fn_in.t = "JumpIfNotZero"
    /\ fn_out.symbol = <<93>> /\ fn_out.parsed.v = "JumpIfNotZero"

\* C17: from_str is an error for every string that is not exactly one of the
\* eight one-character symbols (the empty string and strings of two or more
\* symbols included), and From<u8> fails with "Invalid instruction" for
\* every byte that is not one of the eight symbols.
Symbols == {<<62>>, <<60>>, <<43>>, <<45>>, <<46>>, <<44>>, <<91>>, <<93>>}

C17_InvalidRejected ==
    /\ (fn_in # None /\ fn_in.fn = "from_str") =>
          (fn_out.ok <=> fn_in.s \in Symbols)
    /\ (fn_in # None /\ fn_in.fn = "from_u8") =>
          /\ (<<fn_in.value>> \notin Symbols) => fn_out.panic = "Invalid instruction"
          /\ (<<fn_in.value>> \in Symbols) => fn_out.panic = "none"

C17_Witness ==
    /\ fn_in # None /\ fn_in.fn = "from_str" /\ fn_in.s = <<43, 43>>
    /\ ~fn_out.ok

\* C18: for each of the three trees, the column log-sizes verify_brainfuck
\* computes from the Claim are, in number and value, the log-sizes of the
\* columns prove_brainfuck committed in that tree.
C18_LogSizesMatchCommittedColumns ==
    (vpc # "idle" /\ ~vtampered) =>
        \A idx \in {PREPROCESSED_TRACE_IDX, ORIGINAL_TRACE_IDX, INTERACTION_TRACE_IDX} :
            vlog_sizes[idx] = ptrees[idx].cols

\* the lookup-sum predicate returned true in this verify_brainfuck call
LookupPassed ==
    /\ velems # None
    /\ lookup_sum_valid(vproof.claim, velems, vproof.interaction_claim) = "true"

=============================================================================
